---- MODULE Spec2Model ----
(***************************************************************************)
(* Model of asyncTutorial.ipynb: a notebook with two code cells that       *)
(* square the integers of range(N) behind a 0.2 s delay.                   *)
(*   cell 2:  x = [foo(i) for i in tqdm(range(N))]        (blocking sleep) *)
(*   cell 3:  x = asyncio.run(do1())     (asyncio.sleep + as_completed)    *)
(* The asyncio event loop is modelled as CPython 3.9 runs it: a FIFO       *)
(* queue of ready handles, a set of timers, one handle run at a time.      *)
(* Time is logical: only a sleep advances the clock.  The iteration order  *)
(* of the sets built inside as_completed and the order in which timers of  *)
(* equal deadline fire are nondeterministic.                               *)
(***************************************************************************)
EXTENDS Integers, Sequences, FiniteSets, Bags, TLC

\* largest N explored (N = 50 in the notebook, line 39)
MaxN == 3
\* number of cell executions explored
MaxRuns == 3
\* the delay 0.2 s, in units of 100 ms
Delay == 2

VARIABLES
    N,          \* the workload count (line 39)
    runner,     \* which cell is executing or executed last: "none", "seq", "conc"
    prevRunner, \* the cell executed before this one
    runs,       \* number of cell executions started
    pc,         \* position of the cell's main line of control
    i,          \* items the progress iterator has handed out and got back
    st,         \* unit -> "new","created","scheduled","sleeping","due","woken","finished"
    when,       \* unit -> deadline of its asyncio.sleep timer
    result,     \* unit -> value the finished task holds
    ready,      \* event loop: FIFO of handles to run
    ntodo,      \* event loop: handles left to run in this iteration of the loop
    doneq,      \* as_completed: queue of finished tasks
    getter,     \* as_completed: the main coroutine waits in done.get()
    res,        \* the list the comprehension is building
    x,          \* the notebook variable x
    prevx,      \* x as it was when the executing cell started
    n,          \* tqdm: completed count
    total,      \* tqdm: total
    now,        \* logical clock, read from the start of the executing cell
    completed,  \* units in the order their square was computed
    retired     \* units in the order the comprehension received their result

vars ==
    <<N, runner, prevRunner, runs, pc, i, st, when, result, ready, ntodo, doneq, getter,
      res, x, prevx, n, total, now, completed, retired>>

----------------------------------------------------------------------------
\* Pure helpers

\* faulty variant: a*2
SquareDouble(a) ==
    a + a
\* a**2 (lines 42 and 63)
Square(a) ==
    a * a

\* faulty variants: the range includes m; the range starts at 1
RangeSeqInclusive(m) ==
    [k \in 1..(m + 1) |-> k - 1]
RangeSeqFromOne(m) ==
    [k \in 1..m |-> k]
\* list(range(m)): 0, 1, ..., m-1 (lines 44 and 66)
RangeSeq(m) ==
    [k \in 1..m |-> k - 1]

Units(m) ==
    {RangeSeq(m)[k] : k \in 1..Len(RangeSeq(m))}

\* faulty variants: a unit counted twice; a unit not counted
AdvanceTwice(c) ==
    c + 2
AdvanceNever(c) ==
    c
\* tqdm's n += 1 after the loop body returns (lines 44 and 67)
Advance(c) ==
    c + 1

\* faulty variant: a stack in place of the queue
QueuePutFront(q, f) ==
    <<f>> \o q
\* asyncio.Queue.put_nowait behind as_completed (line 67)
QueuePut(q, f) ==
    Append(q, f)

\* faulty variant: the finished task is read but left in the queue
QueueGetKeep(q) ==
    q
\* asyncio.Queue.get_nowait behind as_completed (line 67)
QueueGet(q) ==
    Tail(q)

\* faulty variant: x += [...]
AssignExtend(old, new) ==
    old \o new
\* x = [...]: the name is bound to the new list (lines 44 and 69)
Assign(old, new) ==
    new

\* every order in which a set can be iterated
Orders(S) ==
    {s \in [1..Cardinality(S) -> S] : \A a, b \in 1..Cardinality(S) : a # b => s[a] # s[b]}

Handle(kind, u) ==
    [k |-> kind, u |-> u]

MainHandle ==
    Handle("main", 0)

SeqToBag(s) ==
    [v \in {s[k] : k \in 1..Len(s)} |-> Cardinality({k \in 1..Len(s) : s[k] = v})]

Min(S) ==
    CHOOSE m \in S : \A o \in S : m <= o

----------------------------------------------------------------------------
\* State after the import cell: nothing has run, x is unbound (empty here)

Init ==
    /\ N \in 0..MaxN
    /\ runner = "none"
    /\ prevRunner = "none"
    /\ runs = 0
    /\ pc = "idle"
    /\ i = 0
    /\ st = [u \in Units(N) |-> "new"]
    /\ when = [u \in Units(N) |-> 0]
    /\ result = [u \in Units(N) |-> 0]
    /\ ready = <<>>
    /\ ntodo = 0
    /\ doneq = <<>>
    /\ getter = FALSE
    /\ res = <<>>
    /\ x = <<>>
    /\ prevx = <<>>
    /\ n = 0
    /\ total = 0
    /\ now = 0
    /\ completed = <<>>
    /\ retired = <<>>

\* what starting either cell resets
StartCell(r, tot) ==
    /\ runs < MaxRuns
    /\ runs' = runs + 1
    /\ prevRunner' = runner
    /\ runner' = r
    /\ i' = 0
    /\ st' = [u \in Units(N) |-> "new"]
    /\ when' = [u \in Units(N) |-> 0]
    /\ result' = [u \in Units(N) |-> 0]
    /\ ready' = <<>>
    /\ ntodo' = 0
    /\ doneq' = <<>>
    /\ getter' = FALSE
    /\ res' = <<>>
    /\ prevx' = x
    /\ n' = 0
    /\ total' = tot
    /\ now' = 0
    /\ completed' = <<>>
    /\ retired' = <<>>
    /\ UNCHANGED <<N, x>>

----------------------------------------------------------------------------
\* Cell 2: the sequential runner

\* the cell starts: tqdm(range(N)) takes its total from len(range(N))
RunCell2 ==
    /\ pc \in {"idle", "done"}
    /\ StartCell("seq", Len(RangeSeq(N)))
    /\ pc' = "next"

\* the comprehension asks tqdm for the next item; foo(i) is entered
SeqIterNext ==
    /\ runner = "seq"
    /\ pc = "next"
    /\ IF i < Len(RangeSeq(N))
       THEN /\ st' = [st EXCEPT ![RangeSeq(N)[i + 1]] = "sleeping"]
            /\ pc' = "sleep"
            /\ x' = x
       ELSE /\ x' = Assign(x, res)
            /\ pc' = "done"
            /\ st' = st
    /\ UNCHANGED <<N, runner, prevRunner, runs, i, when, result, ready, ntodo, doneq, getter,
                   res, prevx, n, total, now, completed, retired>>

\* time.sleep(0.2) blocks the whole process
FooSleep ==
    /\ runner = "seq"
    /\ pc = "sleep"
    /\ now' = now + Delay
    /\ st' = [st EXCEPT ![RangeSeq(N)[i + 1]] = "woken"]
    /\ pc' = "return"
    /\ UNCHANGED <<N, runner, prevRunner, runs, i, when, result, ready, ntodo, doneq, getter,
                   res, x, prevx, n, total, completed, retired>>

\* return a**2; the comprehension appends it
FooReturn ==
    /\ runner = "seq"
    /\ pc = "return"
    /\ LET a == RangeSeq(N)[i + 1] IN
        /\ res' = Append(res, Square(a))
        /\ result' = [result EXCEPT ![a] = Square(a)]
        /\ st' = [st EXCEPT ![a] = "finished"]
        /\ completed' = Append(completed, a)
        /\ retired' = Append(retired, a)
    /\ pc' = "count"
    /\ UNCHANGED <<N, runner, prevRunner, runs, i, when, ready, ntodo, doneq, getter,
                   x, prevx, n, total, now>>

\* faulty variant: the next item is handed out without counting the last
SeqCountSkip ==
    /\ runner = "seq"
    /\ pc = "count"
    /\ i' = i + 1
    /\ pc' = "next"
    /\ UNCHANGED <<N, runner, prevRunner, runs, st, when, result, ready, ntodo, doneq, getter,
                   res, x, prevx, n, total, now, completed, retired>>
\* tqdm's generator is resumed: n += 1
SeqCount ==
    /\ runner = "seq"
    /\ pc = "count"
    /\ n' = Advance(n)
    /\ i' = i + 1
    /\ pc' = "next"
    /\ UNCHANGED <<N, runner, prevRunner, runs, st, when, result, ready, ntodo, doneq, getter,
                   res, x, prevx, total, now, completed, retired>>

----------------------------------------------------------------------------
\* Cell 3: the concurrent runner, main coroutine do1()

\* the cell starts (N must be bound, so cell 2 has run): asyncio.run(do1())
RunCell3 ==
    /\ pc = "done"
    /\ StartCell("conc", N)
    /\ pc' = "tasks"

\* tasks = list(map(afoo, range(N))): N coroutine objects, none started
Do1Tasks ==
    /\ runner = "conc"
    /\ pc = "tasks"
    /\ st' = [u \in Units(N) |-> "created"]
    /\ pc' = "as_completed"
    /\ UNCHANGED <<N, runner, prevRunner, runs, i, when, result, ready, ntodo, doneq, getter,
                   res, x, prevx, n, total, now, completed, retired>>

\* first next() on as_completed(tasks): ensure_future for every member of
\* set(tasks), in the set's iteration order
AsCompleted ==
    /\ runner = "conc"
    /\ pc = "as_completed"
    /\ \E order \in Orders(Units(N)) :
          ready' = ready \o [k \in 1..Len(order) |-> Handle("step", order[k])]
    /\ st' = [u \in Units(N) |-> "scheduled"]
    /\ pc' = "yield"
    /\ UNCHANGED <<N, runner, prevRunner, runs, i, when, result, ntodo, doneq, getter,
                   res, x, prevx, n, total, now, completed, retired>>

\* for _ in range(len(todo)): yield _wait_for_one(); exhausted, do1 returns
Yield ==
    /\ runner = "conc"
    /\ pc = "yield"
    /\ IF i < Cardinality(Units(N))
       THEN /\ pc' = "get"
            /\ x' = x
       ELSE /\ x' = Assign(x, res)
            /\ pc' = "done"
    /\ UNCHANGED <<N, runner, prevRunner, runs, i, st, when, result, ready, ntodo, doneq, getter,
                   res, prevx, n, total, now, completed, retired>>

\* await t: f = await done.get(); return f.result()
WaitForOne ==
    /\ runner = "conc"
    /\ pc = "get"
    /\ IF doneq # <<>>
       THEN /\ res' = Append(res, result[Head(doneq)])
            /\ retired' = Append(retired, Head(doneq))
            /\ doneq' = QueueGet(doneq)
            /\ pc' = "count"
            /\ getter' = getter
       ELSE /\ getter' = TRUE
            /\ pc' = "suspended"
            /\ UNCHANGED <<res, retired, doneq>>
    /\ UNCHANGED <<N, runner, prevRunner, runs, i, st, when, result, ready, ntodo,
                   x, prevx, n, total, now, completed>>

\* tqdm's generator is resumed: n += 1
ConcCount ==
    /\ runner = "conc"
    /\ pc = "count"
    /\ n' = Advance(n)
    /\ i' = i + 1
    /\ pc' = "yield"
    /\ UNCHANGED <<N, runner, prevRunner, runs, st, when, result, ready, ntodo, doneq, getter,
                   res, x, prevx, total, now, completed, retired>>

----------------------------------------------------------------------------
\* Cell 3: the event loop, which runs while do1() is suspended

LoopRuns ==
    /\ runner = "conc"
    /\ pc = "suspended"

\* the loop runs the handle at the head of the ready queue
Runs(kind) ==
    /\ LoopRuns
    /\ ntodo > 0
    /\ Head(ready).k = kind
    /\ ntodo' = ntodo - 1

\* BaseEventLoop._run_once begins an iteration: with nothing ready it sleeps
\* until the earliest deadline; timers that are due move to the ready queue,
\* and the handles now in the queue are the ones this iteration runs
RunOnce ==
    /\ LoopRuns
    /\ ntodo = 0
    /\ LET sleeping == {u \in Units(N) : st[u] = "sleeping"}
           t == IF ready = <<>> /\ sleeping # {} /\ Min({when[u] : u \in sleeping}) > now
                THEN Min({when[u] : u \in sleeping})
                ELSE now
           due == {u \in sleeping : when[u] <= t}
       IN /\ ready # <<>> \/ due # {}
          /\ now' = t
          /\ \E S \in SUBSET due :
                /\ ready = <<>> => S # {}
                /\ \E order \in Orders(S) :
                      ready' = ready \o [k \in 1..Len(order) |-> Handle("timer", order[k])]
                /\ ntodo' = Len(ready) + Cardinality(S)
                /\ st' = [u \in Units(N) |-> IF u \in S THEN "due" ELSE st[u]]
    /\ UNCHANGED <<N, runner, prevRunner, runs, pc, i, when, result, doneq, getter,
                   res, x, prevx, n, total, completed, retired>>

\* faulty variant: time.sleep(0.2) inside the coroutine, which never suspends
AfooStartBlocking ==
    /\ Runs("step")
    /\ LET u == Head(ready).u IN
        /\ now' = now + Delay
        /\ st' = [st EXCEPT ![u] = "finished"]
        /\ result' = [result EXCEPT ![u] = Square(u)]
        /\ completed' = Append(completed, u)
        /\ ready' = Append(Tail(ready), Handle("on_completion", u))
    /\ UNCHANGED <<N, runner, prevRunner, runs, pc, i, when, doneq, getter,
                   res, x, prevx, n, total, retired>>
\* first step of afoo(a): await asyncio.sleep(0.2) arms a timer and suspends
AfooStart ==
    /\ Runs("step")
    /\ LET u == Head(ready).u IN
        /\ st' = [st EXCEPT ![u] = "sleeping"]
        /\ when' = [when EXCEPT ![u] = now + Delay]
    /\ ready' = Tail(ready)
    /\ UNCHANGED <<N, runner, prevRunner, runs, pc, i, result, doneq, getter,
                   res, x, prevx, n, total, now, completed, retired>>

\* the timer's callback sets the sleep future's result: the task's wakeup is queued
TimerFire ==
    /\ Runs("timer")
    /\ st' = [st EXCEPT ![Head(ready).u] = "woken"]
    /\ ready' = Append(Tail(ready), Handle("wakeup", Head(ready).u))
    /\ UNCHANGED <<N, runner, prevRunner, runs, pc, i, when, result, doneq, getter,
                   res, x, prevx, n, total, now, completed, retired>>

\* afoo(a) resumes after its sleep: return a**2; its done callback is queued
AfooReturn ==
    /\ Runs("wakeup")
    /\ LET u == Head(ready).u IN
        /\ st' = [st EXCEPT ![u] = "finished"]
        /\ result' = [result EXCEPT ![u] = Square(u)]
        /\ completed' = Append(completed, u)
        /\ ready' = Append(Tail(ready), Handle("on_completion", u))
    /\ UNCHANGED <<N, runner, prevRunner, runs, pc, i, when, doneq, getter,
                   res, x, prevx, n, total, now, retired>>

\* as_completed's _on_completion(f): done.put_nowait(f) wakes a waiting getter
OnCompletion ==
    /\ Runs("on_completion")
    /\ doneq' = QueuePut(doneq, Head(ready).u)
    /\ IF getter
       THEN /\ getter' = FALSE
            /\ ready' = Append(Tail(ready), MainHandle)
       ELSE /\ getter' = getter
            /\ ready' = Tail(ready)
    /\ UNCHANGED <<N, runner, prevRunner, runs, pc, i, st, when, result,
                   res, x, prevx, n, total, now, completed, retired>>

\* do1() is resumed inside done.get(), which looks at the queue again
MainWakeup ==
    /\ Runs("main")
    /\ ready' = Tail(ready)
    /\ pc' = "get"
    /\ UNCHANGED <<N, runner, prevRunner, runs, i, st, when, result, doneq, getter,
                   res, x, prevx, n, total, now, completed, retired>>

----------------------------------------------------------------------------

\* the steps the interpreter takes by itself once a cell runs
Step ==
    \/ SeqIterNext
    \/ FooSleep
    \/ FooReturn
    \/ SeqCount
    \/ Do1Tasks
    \/ AsCompleted
    \/ Yield
    \/ WaitForOne
    \/ ConcCount
    \/ AfooStart
    \/ RunOnce
    \/ TimerFire
    \/ AfooReturn
    \/ OnCompletion
    \/ MainWakeup

Next ==
    \/ RunCell2
    \/ RunCell3
    \/ SeqIterNext
    \/ FooSleep
    \/ FooReturn
    \/ SeqCount
    \/ Do1Tasks
    \/ AsCompleted
    \/ Yield
    \/ WaitForOne
    \/ ConcCount
    \/ AfooStart
    \/ RunOnce
    \/ TimerFire
    \/ AfooReturn
    \/ OnCompletion
    \/ MainWakeup

Spec ==
    Init /\ [][Next]_vars

\* a started cell keeps running: every sleep ends and the loop keeps turning
FairSpec ==
    Init /\ [][Next]_vars /\ WF_vars(Step)

----------------------------------------------------------------------------
\* Properties

SeqDone ==
    runner = "seq" /\ pc = "done"

ConcDone ==
    runner = "conc" /\ pc = "done"

\* the squares of 0..m-1 in input order
Expected(m) ==
    [k \in 1..m |-> (k - 1) * (k - 1)]

Elems(s) ==
    {s[k] : k \in 1..Len(s)}

InFlight ==
    {u \in DOMAIN st : st[u] \in {"sleeping", "due", "woken"}}

Finished ==
    {u \in DOMAIN st : st[u] = "finished"}

\* C1: once started, the sequential runner terminates (a cell can only be
\* started again after it is done, so done is reached within the same run),
\* and its result has length N with result[i] = i*i at every index i
C1_SequentialResult ==
    /\ [](SeqDone => (Len(x) = N /\ \A k \in 1..Len(x) : x[k] = (k - 1) * (k - 1)))
    /\ (runner = "seq" /\ pc # "done") ~> SeqDone

C1_Witness ==
    SeqDone /\ N >= 3 /\ x[3] = 4

\* C2: whatever the completion order, the list do1() returns has the
\* multiset of values {i*i : 0 <= i < N}
C2_ConcurrentMultiset ==
    ConcDone => SeqToBag(x) = SeqToBag(Expected(N))

C2_Witness ==
    ConcDone /\ N >= 3 /\ Len(x) = N /\ x[1] = 4

\* C3: no unit is yielded twice, when do1() returns every unit has been
\* yielded, and a started concurrent run always reaches that point, so every
\* launched unit is eventually retired
C3_EachUnitOnce ==
    /\ [](runner = "conc" =>
            /\ \A a, b \in 1..Len(retired) : a # b => retired[a] # retired[b]
            /\ (pc = "done" => Elems(retired) = 0..(N - 1)))
    /\ (runner = "conc" /\ pc # "done") ~> (ConcDone /\ Elems(retired) = DOMAIN st)

C3_Witness ==
    ConcDone /\ N >= 2 /\ Len(retired) = N /\ retired[1] # 0

\* C4: the sequential runner has at most one unit in flight, and a unit is
\* entered only after every earlier unit has finished its delay, has its
\* square in the list and has been counted
C4_OneAtATime ==
    runner = "seq" =>
        /\ Cardinality(InFlight) <= 1
        /\ \A u \in DOMAIN st : st[u] # "new" =>
              \A v \in DOMAIN st : v < u =>
                  /\ st[v] = "finished"
                  /\ Len(res) >= v + 1
                  /\ res[v + 1] = v * v
                  /\ n >= v + 1

C4_Witness ==
    runner = "seq" /\ N >= 2 /\ st[1] = "sleeping" /\ st[0] = "finished"

\* C5: when either runner has finished, the progress indicator shows N
\* completed out of N
C5_ProgressAtEnd ==
    pc = "done" => (n = N /\ total = N)

C5_Witness ==
    ConcDone /\ prevRunner = "seq" /\ N >= 2 /\ n = N

\* C6: with N = 0 neither runner ever waits, and each finishes with an
\* empty result and progress 0 out of 0
C6_EmptyRange ==
    N = 0 =>
        /\ now = 0
        /\ pc \notin {"sleep", "suspended"}
        /\ (pc = "done" => (x = <<>> /\ n = 0 /\ total = 0))

C6_Witness ==
    N = 0 /\ ConcDone /\ prevRunner = "seq" /\ x = <<>>

\* C7: in the concurrent runner a unit finishes only after all units have
\* started their delay, every timer is due one delay after the run began
\* (the clock reads 0 then), and the run ends one delay after it began
\* whatever N >= 1 is; the sequential runner ends N delays after it began
C7_OneDelayInterval ==
    /\ runner = "conc" =>
          /\ \A u \in DOMAIN st : st[u] = "finished" =>
                \A v \in DOMAIN st : st[v] \in {"sleeping", "due", "woken", "finished"}
          /\ \A u \in DOMAIN st : st[u] \in {"sleeping", "due", "woken", "finished"} =>
                when[u] = Delay
          /\ \A u \in DOMAIN st : st[u] \in {"due", "woken", "finished"} =>
                now = Delay
          /\ (pc = "done" /\ N >= 1 => now = Delay)
    /\ SeqDone => now = N * Delay

C7_Witness ==
    ConcDone /\ N >= 3 /\ now = Delay /\ Len(x) = N

\* C8: a runner executed twice in a row with the same N gives the same
\* multiset of results, and for the sequential runner the same sequence
C8_SameResultOnRerun ==
    (pc = "done" /\ runs >= 2 /\ prevRunner = runner) =>
        /\ SeqToBag(x) = SeqToBag(prevx)
        /\ (runner = "seq" => x = prevx)

C8_Witness ==
    ConcDone /\ prevRunner = "conc" /\ N >= 2 /\ Len(x) = N /\ x # prevx

\* C9: within a run the progress counter never decreases, grows by one at a
\* time and only for a unit just retired, and never exceeds N, the number of
\* finished units or the number of retired units
C9_ProgressCounter ==
    /\ [](/\ n <= N
          /\ n <= Cardinality(Finished)
          /\ n <= Len(retired)
          /\ Len(retired) <= n + 1)
    /\ [][runs' = runs =>
            \/ n' = n
            \/ (n' = n + 1 /\ pc = "count" /\ Len(retired) = n + 1)]_vars

C9_Witness ==
    runner = "conc" /\ pc = "suspended" /\ n >= 1 /\ n < N /\ Cardinality(Finished) > n

\* C10: the k-th element of the concurrent runner's list is the square of
\* the k-th unit to complete
C10_CompletionOrder ==
    runner = "conc" =>
        /\ Len(res) <= Len(completed)
        /\ \A k \in 1..Len(res) : res[k] = completed[k] * completed[k]
        /\ (pc = "done" => x = res)

C10_Witness ==
    ConcDone /\ Len(x) = N /\ \E k \in 1..Len(x) : x[k] # (k - 1) * (k - 1)
====
